---- MODULE Spec2Model ----
(***************************************************************************)
(* Model of the heatmap losses of mmpose/models/losses/mse_loss.py:        *)
(* KeypointMSELoss, CombinedTargetMSELoss, KeypointOHKMMSELoss and         *)
(* CombinedTargetIOULoss.                                                  *)
(*                                                                         *)
(* A tensor is a record [shape, data]: shape is the sequence of its        *)
(* dimension sizes, data its elements in row-major (contiguous) order.     *)
(* Tensor elements are integers; the real-valued losses computed from them *)
(* are exact rationals <<numerator, denominator>> in lowest terms, so      *)
(* floating-point rounding is outside the model.  The torch operations     *)
(* the losses use (broadcasting, squeeze, indexing, mse_loss, topk) are    *)
(* modelled by what they do to shape and data.                             *)
(***************************************************************************)
EXTENDS Integers, Sequences, FiniteSets, TLC

VARIABLES
    cls,                \* class of the loss module instance
    use_target_weight,  \* self.use_target_weight
    topk,               \* self.topk (KeypointOHKMMSELoss only, else 0)
    loss_weight,        \* self.loss_weight
    output,             \* forward argument: output tensor
    target,             \* forward argument: target tensor
    target_weights,     \* forward argument: weights tensor, or None
    pc,                 \* "call": forward not yet run, "done": forward returned or raised
    result,             \* what forward returned or raised
    trace,              \* what forward computed on the way (see NoTrace)
    frames              \* the forward calls run step by step (see NewFrame)

vars == <<cls, use_target_weight, topk, loss_weight, output, target,
          target_weights, pc, result, trace, frames>>

(***************************************************************************)
(* Bounds of the model.                                                    *)
(***************************************************************************)
\* largest batch size B
MaxB == 2
\* largest keypoint count K of a heatmap tensor [B,K,H,W]
MaxK == 3
\* largest heatmap height H and width W
MaxHW == 2
\* largest number of elements B*K*H*W of an enumerated heatmap tensor
MaxNumel == 4
\* largest keypoint count K of a combined-target tensor [B,3K,H,W]
MaxJoints == 2
\* largest number of cells B*K*H*W of an enumerated combined-target tensor
MaxCells == 2
\* the same, when the combined-target loss is called with use_target_weight
MaxWeightedCells == 2
\* largest number of cells B*K*H*W of a combined-target tensor passed to the
\* IoU variant
MaxIOUCells == 4
\* largest configured topk
MaxTopk == 3
\* largest configured loss_weight
MaxLossWeight == 2
\* number of forward calls run step by step on one module instance
MaxCalls == 2
\* largest number of elements B*K of a heatmap tensor [B,K,1,1] (of cells of a
\* combined-target tensor [B,3K,1,1]) passed to a call run step by step
MaxFrameNumel == 2
\* largest channel count C, and largest number of elements B*C*H*W, of a
\* tensor whose channel count is not a multiple of 3
MaxRemainderC == 5
MaxRemainderNumel == 8
\* element values of the enumerated tensors
OutVals == {0, 1}
TgtVals == {0, 1}
WeightVals == {0, 2}
\* element values of the constant tensors passed to the IoU variant
SignedVals == {-1, 0, 1}

(***************************************************************************)
(* MkSeq builds the sequence <<F(1), ..., F(n)>> with its elements         *)
(* evaluated; With names the value x in F, like a local variable.          *)
(***************************************************************************)
MkSeq(n, F(_)) == SubSeq([i \in 1..n |-> F(i)], 1, n)
With(x, F(_)) == F(x)

(***************************************************************************)
(* Exact rational arithmetic for the loss values.                          *)
(***************************************************************************)
Abs(n) == IF n < 0 THEN -n ELSE n

\* greatest common divisor of a >= 0 and b >= 0 (Euclid)
GCD(a, b) ==
    LET g[x \in Nat, y \in Nat] == IF y = 0 THEN x ELSE g[y, x % y]
    IN  g[a, b]

\* the floating-point NaN: what 0/0 gives, and every sum or product of a NaN
NaN == <<0, 0>>

\* n/d in lowest terms for d > 0; NaN for d = 0 (only 0/0 occurs)
Rat(n, d) ==
    IF d = 0 THEN NaN
    ELSE LET g == GCD(Abs(n), d)
         IN  <<n \div g, d \div g>>

Zero == <<0, 1>>
RAdd(x, y) == Rat(x[1] * y[2] + y[1] * x[2], x[2] * y[2])
RMulInt(x, k) == Rat(x[1] * k, x[2])
RDivInt(x, k) == Rat(x[1], x[2] * k)
RLeq(x, y) == x[1] * y[2] <= y[1] * x[2]

\* sum of a sequence of rationals
RSum(s) ==
    LET f[i \in 0..Len(s)] == IF i = 0 THEN Zero ELSE RAdd(f[i - 1], s[i])
    IN  f[Len(s)]

\* sum of a sequence of integers
ISum(s) ==
    LET f[i \in 0..Len(s)] == IF i = 0 THEN 0 ELSE f[i - 1] + s[i]
    IN  f[Len(s)]

\* product of a sequence of integers
Prod(s) ==
    LET f[i \in 0..Len(s)] == IF i = 0 THEN 1 ELSE f[i - 1] * s[i]
    IN  f[Len(s)]

(***************************************************************************)
(* Tensors.                                                                *)
(***************************************************************************)
\* Python's None
None == [shape |-> <<>>, data |-> <<>>]

Tensor(shape, data) == [shape |-> shape, data |-> data]
Numel(t) == Prod(t.shape)
Ndim(t) == Len(t.shape)

\* number of elements one step along dimension i spans (row-major)
Stride(shape, i) == Prod(SubSeq(shape, i + 1, Len(shape)))
Strides(shape) == MkSeq(Len(shape), LAMBDA i : Stride(shape, i))

\* shape right-aligned to n dimensions, padded with 1 on the left
PadLeft(shape, n) ==
    MkSeq(n, LAMBDA i : IF i <= n - Len(shape) THEN 1
                        ELSE shape[i - (n - Len(shape))])
MaxOf(a, b) == IF a >= b THEN a ELSE b

\* torch broadcasting: right-aligned dimensions are equal or one of them is 1
Broadcastable(sa, sb) ==
    LET n == MaxOf(Len(sa), Len(sb))
        pa == PadLeft(sa, n)
        pb == PadLeft(sb, n)
    IN  \A i \in 1..n : pa[i] = pb[i] \/ pa[i] = 1 \/ pb[i] = 1
BroadcastShape(sa, sb) ==
    LET n == MaxOf(Len(sa), Len(sb))
        pa == PadLeft(sa, n)
        pb == PadLeft(sb, n)
    IN  MkSeq(n, LAMBDA i : IF pa[i] = 1 THEN pb[i] ELSE pa[i])

\* for every element (in row-major order) of a broadcast result of shape s,
\* the offset (1-based) of the element read from an operand of `shape`: the
\* operand's dimensions are right-aligned, and a dimension of size 1 is read
\* at index 0 whatever the result's index
BroadcastIndex(s, shape) ==
    IF s = shape
    THEN MkSeq(Prod(s), LAMBDA f : f)
    ELSE LET rs == Strides(s)
             os == Strides(shape)
             off == Len(s) - Len(shape)
         IN  MkSeq(Prod(s), LAMBDA f :
                ISum(MkSeq(Len(shape), LAMBDA i :
                       IF shape[i] = 1 THEN 0
                       ELSE (((f - 1) \div rs[i + off]) % s[i + off]) * os[i])) + 1)

\* a * b, elementwise with broadcasting
Mul(a, b) ==
    With(BroadcastShape(a.shape, b.shape), LAMBDA s :
    With(BroadcastIndex(s, a.shape), LAMBDA ia :
    With(BroadcastIndex(s, b.shape), LAMBDA ib :
        Tensor(s, MkSeq(Len(ia), LAMBDA f : a.data[ia[f]] * b.data[ib[f]])))))
\* a - b, elementwise with broadcasting
Sub(a, b) ==
    With(BroadcastShape(a.shape, b.shape), LAMBDA s :
    With(BroadcastIndex(s, a.shape), LAMBDA ia :
    With(BroadcastIndex(s, b.shape), LAMBDA ib :
        Tensor(s, MkSeq(Len(ia), LAMBDA f : a.data[ia[f]] - b.data[ib[f]])))))

\* a + b, elementwise with broadcasting
Add(a, b) ==
    With(BroadcastShape(a.shape, b.shape), LAMBDA s :
    With(BroadcastIndex(s, a.shape), LAMBDA ia :
    With(BroadcastIndex(s, b.shape), LAMBDA ib :
        Tensor(s, MkSeq(Len(ia), LAMBDA f : a.data[ia[f]] + b.data[ib[f]])))))

\* t.unsqueeze(-1)
UnsqueezeLast(t) == Tensor(Append(t.shape, 1), t.data)
\* t.unsqueeze(-1), n times
UnsqueezeLastN(t, n) == Tensor(t.shape \o MkSeq(n, LAMBDA i : 1), t.data)

\* t.squeeze(): every dimension of size 1 is removed
Squeeze(t) == Tensor(SelectSeq(t.shape, LAMBDA d : d # 1), t.data)

\* t[:, idx] of a tensor with at least two dimensions (idx 0-based)
SelectDim1(t, idx) ==
    LET inner == Stride(t.shape, 2)
    IN  Tensor(<<t.shape[1]>> \o SubSeq(t.shape, 3, Len(t.shape)),
               MkSeq(t.shape[1] * inner, LAMBDA f :
                  t.data[((f - 1) \div inner) * t.shape[2] * inner
                           + idx * inner + ((f - 1) % inner) + 1]))

\* nn.MSELoss(reduction='none')(input, tgt): the elementwise squared error
MSENone(input, tgt) ==
    With(Sub(input, tgt), LAMBDA d :
        Tensor(d.shape, MkSeq(Len(d.data), LAMBDA f : d.data[f] * d.data[f])))
\* a faulty variant of MSEMean: the squared errors are summed, not averaged
MSESum(input, tgt) ==
    With(MSENone(input, tgt), LAMBDA sq : Rat(ISum(sq.data), 1))
\* nn.MSELoss(reduction='mean')(input, tgt): the mean over all elements; the
\* mean of no elements is NaN
MSEMean(input, tgt) ==
    With(MSENone(input, tgt), LAMBDA sq : Rat(ISum(sq.data), Len(sq.data)))

(***************************************************************************)
(* What forward returns or raises.                                         *)
(***************************************************************************)
NoResult == [tag |-> "none", val |-> Zero, err |-> "none"]
Ok(v) == [tag |-> "value", val |-> v, err |-> "none"]
Raise(e) == [tag |-> "error", val |-> Zero, err |-> e]

\* trace of one forward call:
\*   n_crit    number of self.criterion calls made
\*   n_topk    number of torch.topk selections made
\*   topk_idx  the index sets torch.topk returned, one per sample
\*   cls_loss  sum of the classification terms added to loss
\*   reg_loss  sum of the regression terms added to loss
\*   bbox_gt   the ground-truth boxes appended to bbox_gt
\*   bbox_pred the predicted boxes appended to bbox_pred
NoTrace == [n_crit |-> 0, n_topk |-> 0, topk_idx |-> <<>>,
            cls_loss |-> Zero, reg_loss |-> Zero,
            bbox_gt |-> <<>>, bbox_pred |-> <<>>]
Outcome(r, t) == [result |-> r, trace |-> t]

\* a faulty variant of Scale: the weight is added, not multiplied
Shift(loss, self_loss_weight) == RAdd(loss, <<self_loss_weight - 1, 1>>)
\* loss * self.loss_weight
Scale(loss, self_loss_weight) == RMulInt(loss, self_loss_weight)

(***************************************************************************)
(* KeypointMSELoss.forward                                                 *)
(***************************************************************************)
\* faulty variants of WeightedMSE: only the output is weighted; the weights
\* are ignored
OutputWeightedMSE(out, tgt, w) == MSEMean(Mul(out, w), tgt)
IgnoredWeightMSE(out, tgt, w) == MSEMean(out, tgt)

\* a faulty variant of KeypointMSELossCall: target_weights is never looked at
UncheckedCall(self_use_target_weight, self_loss_weight, out, tgt, tw) ==
    Outcome(Ok(Scale(MSEMean(out, tgt), self_loss_weight)),
            [NoTrace EXCEPT !.n_crit = 1])

\* the weighted branch: criterion(output * target_weights, target * target_weights)
WeightedMSE(out, tgt, w) == MSEMean(Mul(out, w), Mul(tgt, w))

KeypointMSELossCall(self_use_target_weight, self_loss_weight, out, tgt, tw) ==
    IF self_use_target_weight
    THEN IF tw = None
         THEN Outcome(Raise("AssertionError"), NoTrace)
         ELSE IF Ndim(out) < Ndim(tw)
         THEN Outcome(Raise("AssertionError"), NoTrace)
         ELSE LET w == UnsqueezeLastN(tw, Ndim(out) - Ndim(tw))
              IN  IF ~Broadcastable(out.shape, w.shape)
                  THEN Outcome(Raise("RuntimeError"), NoTrace)
                  ELSE Outcome(Ok(Scale(WeightedMSE(out, tgt, w),
                                        self_loss_weight)),
                               [NoTrace EXCEPT !.n_crit = 1])
    ELSE Outcome(Ok(Scale(MSEMean(out, tgt), self_loss_weight)),
                 [NoTrace EXCEPT !.n_crit = 1])

(***************************************************************************)
(* KeypointOHKMMSELoss                                                     *)
(***************************************************************************)
\* a faulty variant of TopkExceeds: forward without its guard
TopkNeverExceeds(num_keypoints, self_topk) == FALSE

\* forward's guard: num_keypoints < self.topk
TopkExceeds(num_keypoints, self_topk) == num_keypoints < self_topk

\* target_weights[:, idx, None, None]
WeightOfKeypoint(tw, idx) == UnsqueezeLastN(SelectDim1(tw, idx), 2)

\* the squared error of keypoint idx: one self.criterion call of the loop
KeypointLoss(self_use_target_weight, out, tgt, tw, idx) ==
    IF self_use_target_weight
    THEN LET target_weight == WeightOfKeypoint(tw, idx)
         IN  MSENone(Mul(SelectDim1(out, idx), target_weight),
                     Mul(SelectDim1(tgt, idx), target_weight))
    ELSE MSENone(SelectDim1(out, idx), SelectDim1(tgt, idx))

\* the loop over the keypoints: it appends one loss per keypoint until the
\* indexing of target_weights raises (None is not subscriptable; idx is out
\* of range), and ends with the list `losses` built so far and the exception
KeypointLosses(self_use_target_weight, out, tgt, tw) ==
    LET K == out.shape[2]
        err == IF ~self_use_target_weight \/ K = 0 THEN "none"
               ELSE IF tw = None THEN "TypeError"
               ELSE IF tw.shape[2] < K THEN "IndexError"
               ELSE "none"
        n == IF err = "none" THEN K
             ELSE IF err = "TypeError" THEN 0
             ELSE tw.shape[2]
    IN  [err |-> err,
         losses |-> MkSeq(n, LAMBDA i :
                        KeypointLoss(self_use_target_weight, out, tgt, tw, i - 1))]

\* loss.mean(dim=(1, 2)) of a [B,H,W] tensor: one value per sample
MeanDims12(t) ==
    LET hw == t.shape[2] * t.shape[3]
    IN  Tensor(<<t.shape[1]>>,
               MkSeq(t.shape[1], LAMBDA b :
                  Rat(ISum(SubSeq(t.data, (b - 1) * hw + 1, b * hw)), hw)))

\* torch.cat of the K columns loss.mean(dim=(1, 2)).unsqueeze(dim=1): [B,K]
CatLosses(losses) ==
    With(MkSeq(Len(losses), LAMBDA k : MeanDims12(losses[k])), LAMBDA cols :
        LET nb == cols[1].shape[1]
            nk == Len(cols)
        IN  Tensor(<<nb, nk>>,
                   MkSeq(nb * nk, LAMBDA f :
                      cols[((f - 1) % nk) + 1].data[((f - 1) \div nk) + 1])))

\* a faulty variant of Row: every sample reads the losses of sample 0
FirstRow(losses, i) == SubSeq(losses.data, 1, losses.shape[2])

\* losses[i] (i 0-based): the K per-keypoint losses of sample i
Row(losses, i) ==
    SubSeq(losses.data, i * losses.shape[2] + 1, (i + 1) * losses.shape[2])

\* a faulty variant of TopkIndexSets: any k values are selected
AnyIndexSets(sub_loss, k) ==
    {S \in SUBSET (0..(Len(sub_loss) - 1)) : Cardinality(S) = k}

\* a faulty variant of TopkIndexSets: the k smallest values are selected
BottomkIndexSets(sub_loss, k) ==
    {S \in SUBSET (0..(Len(sub_loss) - 1)) :
        /\ Cardinality(S) = k
        /\ \A i \in S : \A j \in (0..(Len(sub_loss) - 1)) \ S :
              RLeq(sub_loss[i + 1], sub_loss[j + 1])}

\* torch.topk(sub_loss, k, sorted=False): the index sets (0-based) it may
\* return.  Every chosen value is >= every value left out; which of several
\* equal values is chosen is not specified.
TopkIndexSets(sub_loss, k) ==
    {S \in SUBSET (0..(Len(sub_loss) - 1)) :
        /\ Cardinality(S) = k
        /\ \A i \in S : \A j \in (0..(Len(sub_loss) - 1)) \ S :
              RLeq(sub_loss[j + 1], sub_loss[i + 1])}

\* torch.gather(sub_loss, 0, topk_idx): the selected values, in ascending
\* index order
Gather(sub_loss, topk_idx) ==
    LET tagged == SelectSeq(MkSeq(Len(sub_loss), LAMBDA i : <<i - 1, sub_loss[i]>>),
                            LAMBDA e : e[1] \in topk_idx)
    IN  MkSeq(Len(tagged), LAMBDA j : tagged[j][2])

\* a faulty variant of OhkmSample: the selected losses are summed and not
\* divided by topk
OhkmSampleSum(sub_loss, topk_idx, self_topk) == RSum(Gather(sub_loss, topk_idx))

\* one iteration of _ohkm's loop: torch.sum(tmp_loss) / self.topk
OhkmSample(sub_loss, topk_idx, self_topk) ==
    LET tmp_loss == Gather(sub_loss, topk_idx)
    IN  RDivInt(RSum(tmp_loss), self_topk)

\* _ohkm(losses), with picks[i] the index set torch.topk returned for sample i
Ohkm(losses, self_topk, picks) ==
    LET B == losses.shape[1]
    IN  RDivInt(RSum(MkSeq(B, LAMBDA i :
                        OhkmSample(Row(losses, i - 1), picks[i], self_topk))), B)

\* the sequences <<c1, ..., cn>> with ci in sets[i]
Choices(sets) ==
    LET c[i \in 0..Len(sets)] ==
            IF i = 0 THEN {<<>>}
            ELSE {Append(t, h) : t \in c[i - 1], h \in sets[i]}
    IN  c[Len(sets)]

\* the index sets torch.topk may return over the whole loop of _ohkm
TopkChoices(losses, self_topk) ==
    Choices(MkSeq(losses.shape[1], LAMBDA i :
                     TopkIndexSets(Row(losses, i - 1), self_topk)))

\* the outcomes of forward: the results it may return or the exception it
\* raises, each with its trace
KeypointOHKMMSELossCall(self_use_target_weight, self_topk, self_loss_weight, out, tgt, tw) ==
    IF TopkExceeds(out.shape[2], self_topk)
    THEN {Outcome(Raise("ValueError"), NoTrace)}
    ELSE With(KeypointLosses(self_use_target_weight, out, tgt, tw), LAMBDA kl :
             IF kl.err # "none"
             THEN {Outcome(Raise(kl.err),
                           [NoTrace EXCEPT !.n_crit = Len(kl.losses)])}
             ELSE IF self_topk > out.shape[2]
             \* torch.topk: selected index k out of range
             THEN {Outcome(Raise("RuntimeError"),
                           [NoTrace EXCEPT !.n_crit = Len(kl.losses),
                                           !.n_topk = 1])}
             ELSE IF out.shape[1] = 0
             \* _ohkm: no sample, the Python float 0. divided by the int B = 0
             THEN {Outcome(Raise("ZeroDivisionError"),
                           [NoTrace EXCEPT !.n_crit = Len(kl.losses)])}
             ELSE With(CatLosses(kl.losses), LAMBDA losses :
                     {Outcome(Ok(Scale(Ohkm(losses, self_topk, picks),
                                       self_loss_weight)),
                              [NoTrace EXCEPT !.n_crit = Len(kl.losses),
                                              !.n_topk = losses.shape[1],
                                              !.topk_idx = picks]) :
                         picks \in TopkChoices(losses, self_topk)}))

(***************************************************************************)
(* CombinedTargetMSELoss.forward                                           *)
(***************************************************************************)
\* output.reshape((batch_size, num_channels, -1))
Reshape3(t) ==
    Tensor(<<t.shape[1], t.shape[2], Prod(SubSeq(t.shape, 3, Len(t.shape)))>>,
           t.data)

\* reshape((batch_size, num_channels, -1)) raises for a tensor without
\* elements when batch_size * num_channels = 0: the size -1 is ambiguous
CanReshape3(t) == t.shape[1] * t.shape[2] # 0

\* a faulty variant of SplitChannel: the channels are counted from the last
\* complete triplet backwards, so the C mod 3 channels left over are the first
ShiftedSplitChannel(t, c) ==
    Squeeze(Tensor(<<t.shape[1], 1, t.shape[3]>>,
                   SelectDim1(t, c + (t.shape[2] % 3)).data))

\* t.split(1, 1)[c].squeeze() of a reshaped [B,C,H*W] tensor: split keeps
\* the channel dimension with size 1, squeeze drops every size-1 dimension
SplitChannel(t, c) ==
    Squeeze(Tensor(<<t.shape[1], 1, t.shape[3]>>, SelectDim1(t, c).data))

\* target_weights[:, idx, None]
WeightColumn(tw, idx) == UnsqueezeLast(SelectDim1(tw, idx))

\* 0.5 * self.criterion(a, b)
HalfMSE(a, b) == RDivInt(MSEMean(a, b), 2)

\* the classification loss of one keypoint
ClassificationTerm(heatmap_pred, heatmap_gt) == HalfMSE(heatmap_pred, heatmap_gt)

\* a faulty variant of RegressionTerm: the offsets are masked by heatmap_pred
PredMaskedTerm(heatmap_pred, heatmap_gt, offset_pred, offset_gt) ==
    HalfMSE(Mul(heatmap_pred, offset_pred), Mul(heatmap_pred, offset_gt))

\* the regression loss of one offset map: the offsets are masked by heatmap_gt
RegressionTerm(heatmap_pred, heatmap_gt, offset_pred, offset_gt) ==
    HalfMSE(Mul(heatmap_gt, offset_pred), Mul(heatmap_gt, offset_gt))

\* the three terms one keypoint adds to loss
KeypointTerms(heatmap_pred, heatmap_gt, heatmaps_pred, heatmaps_gt, idx) ==
    LET offset_x_pred == SplitChannel(heatmaps_pred, idx * 3 + 1)
        offset_x_gt == SplitChannel(heatmaps_gt, idx * 3 + 1)
        offset_y_pred == SplitChannel(heatmaps_pred, idx * 3 + 2)
        offset_y_gt == SplitChannel(heatmaps_gt, idx * 3 + 2)
    IN  IF ~Broadcastable(heatmap_gt.shape, offset_x_pred.shape)
        THEN [err |-> "RuntimeError", cls_loss |-> Zero, reg_loss |-> Zero]
        ELSE [err |-> "none",
              cls_loss |-> ClassificationTerm(heatmap_pred, heatmap_gt),
              reg_loss |->
                 RAdd(RegressionTerm(heatmap_pred, heatmap_gt,
                                     offset_x_pred, offset_x_gt),
                      RegressionTerm(heatmap_pred, heatmap_gt,
                                     offset_y_pred, offset_y_gt))]

\* one iteration of the loop over the keypoints: the terms added to loss, or
\* the exception raised
CombinedKeypoint(self_use_target_weight, heatmaps_pred, heatmaps_gt, tw, idx) ==
    LET heatmap_pred == SplitChannel(heatmaps_pred, idx * 3)
        heatmap_gt == SplitChannel(heatmaps_gt, idx * 3)
    IN  IF self_use_target_weight
        THEN IF tw = None
             THEN [err |-> "TypeError", cls_loss |-> Zero, reg_loss |-> Zero]
             ELSE IF idx >= tw.shape[2]
             THEN [err |-> "IndexError", cls_loss |-> Zero, reg_loss |-> Zero]
             ELSE LET target_weight == WeightColumn(tw, idx)
                  IN  IF ~Broadcastable(heatmap_pred.shape, target_weight.shape)
                      THEN [err |-> "RuntimeError", cls_loss |-> Zero,
                            reg_loss |-> Zero]
                      ELSE KeypointTerms(Mul(heatmap_pred, target_weight),
                                         Mul(heatmap_gt, target_weight),
                                         heatmaps_pred, heatmaps_gt, idx)
        ELSE KeypointTerms(heatmap_pred, heatmap_gt, heatmaps_pred,
                           heatmaps_gt, idx)

\* the loop over the keypoints: it adds the three terms of one keypoint
\* after the other to loss until an iteration raises, and ends with the sums
\* of the terms added, the number n of criterion calls made and the exception
CombinedLoop(self_use_target_weight, heatmaps_pred, heatmaps_gt, tw, num_joints) ==
    With(MkSeq(num_joints, LAMBDA i :
             CombinedKeypoint(self_use_target_weight, heatmaps_pred,
                              heatmaps_gt, tw, i - 1)), LAMBDA terms :
        LET failing == {i \in 1..num_joints : terms[i].err # "none"}
            first == IF failing = {} THEN num_joints + 1
                     ELSE CHOOSE i \in failing : \A j \in failing : i <= j
        IN  [err |-> IF failing = {} THEN "none" ELSE terms[first].err,
             n |-> 3 * (first - 1),
             cls_loss |-> RSum(MkSeq(first - 1, LAMBDA i : terms[i].cls_loss)),
             reg_loss |-> RSum(MkSeq(first - 1, LAMBDA i : terms[i].reg_loss))])

\* a faulty variant of PerJoint: the sum over the keypoints is not averaged
NotPerJoint(loss, num_joints) == loss

\* loss / num_joints
PerJoint(loss, num_joints) == RDivInt(loss, num_joints)

CombinedTargetMSELossCall(self_use_target_weight, self_loss_weight, out, tgt, tw) ==
    LET num_joints == out.shape[2] \div 3
    IN  IF ~CanReshape3(out)
        THEN Outcome(Raise("RuntimeError"), NoTrace)
        ELSE
        With(CombinedLoop(self_use_target_weight, Reshape3(out), Reshape3(tgt),
                          tw, num_joints), LAMBDA acc :
          LET tr == [NoTrace EXCEPT !.n_crit = acc.n,
                                    !.cls_loss = acc.cls_loss,
                                    !.reg_loss = acc.reg_loss]
          IN  IF acc.err # "none"
              THEN Outcome(Raise(acc.err), tr)
              \* the Python float 0. divided by the int 0
              ELSE IF num_joints = 0
              THEN Outcome(Raise("ZeroDivisionError"), tr)
              ELSE Outcome(Ok(Scale(PerJoint(RAdd(acc.cls_loss, acc.reg_loss),
                                             num_joints), self_loss_weight)),
                           tr))

(***************************************************************************)
(* CombinedTargetIOULoss.forward                                           *)
(***************************************************************************)
\* what one spatial location does to the loop over the locations: "continue"
\* (the location is skipped) or the exception it raises, with the boxes it
\* appended to bbox_gt and bbox_pred before
Location(e, gt, pred) == [err |-> e, bbox_gt |-> gt, bbox_pred |-> pred]

\* torch.ones(batch_size) * v
OnesTimes(batch_size, v) ==
    Tensor(<<batch_size>>, MkSeq(batch_size, LAMBDA i : v))

\* a > b elementwise, tensors of the same shape: the indices (1-based) where
\* the mask is True
MaskGreater(a, b) == {i \in 1..Len(a.data) : a.data[i] > b.data[i]}

\* t[mask] of a one-dimensional tensor: the elements where the mask is True
Masked(t, mask) == SelectSeq(MkSeq(Len(t.data), LAMBDA i : <<i, t.data[i]>>),
                             LAMBDA e : e[1] \in mask)

\* torch.stack([a, b, c, d], dim=-1) of four masked selections of the same
\* length: one box <<a[i], b[i], c[i], d[i]>> per row
StackBoxes(a, b, c, d) ==
    MkSeq(Len(a), LAMBDA i : <<a[i][2], b[i][2], c[i][2], d[i][2]>>)

\* lines 299-316 for one location (x, y): the corner tensors, the masks and the
\* first torch.stack, which needs selections of equal length; then
\* 1 - mask_x, the subtraction torch refuses for a bool tensor
GtBoxes(batch_size, offset_x_gt, offset_y_gt, x, y, H) ==
    LET x1 == OnesTimes(batch_size, x)
        y1 == OnesTimes(batch_size, y)
        dx == SelectDim1(offset_x_gt, x * H + y)
        dy == SelectDim1(offset_y_gt, x * H + y)
    IN  IF ~Broadcastable(x1.shape, dx.shape)
        THEN Location("RuntimeError", <<>>, <<>>)
        ELSE LET gt_x2 == Add(x1, dx)
                 gt_y2 == Add(y1, dy)
                 mask_x == MaskGreater(gt_x2, x1)
                 mask_y == MaskGreater(gt_y2, y1)
             IN  IF Cardinality(mask_x) # Cardinality(mask_y)
                 THEN Location("RuntimeError", <<>>, <<>>)
                 ELSE Location("RuntimeError",
                               StackBoxes(Masked(x1, mask_x), Masked(y1, mask_y),
                                          Masked(gt_x2, mask_x),
                                          Masked(gt_y2, mask_y)),
                               <<>>)

\* one iteration of the loops over x and y, lines 297-336
LocationStep(batch_size, heatmap_gt, offset_x_gt, offset_y_gt, x, y, H) ==
    \* heatmap_gt[:, x * H + y] indexes two dimensions
    IF Ndim(heatmap_gt) < 2
    THEN Location("IndexError", <<>>, <<>>)
    ELSE With(SelectDim1(heatmap_gt, x * H + y), LAMBDA gt :
        \* `if tensor == 0`: the truth value of a tensor of several elements,
        \* or of none, is ambiguous
        IF Numel(gt) # 1
        THEN Location("RuntimeError", <<>>, <<>>)
        ELSE IF gt.data[1] = 0
        THEN Location("continue", <<>>, <<>>)
        \* offset_x_gt[:, x * H + y] indexes two dimensions
        ELSE IF Ndim(offset_x_gt) < 2
        THEN Location("IndexError", <<>>, <<>>)
        ELSE GtBoxes(batch_size, offset_x_gt, offset_y_gt, x, y, H))

\* the loops over x in range(W) and y in range(H) and the torch.cat that
\* follows them: the first location that is not skipped ends the loops with
\* its exception; when every location is skipped torch.cat is given an empty
\* list, which it refuses
LocationLoop(batch_size, heatmap_gt, offset_x_gt, offset_y_gt, W, H) ==
    With(MkSeq(W * H, LAMBDA n :
             LocationStep(batch_size, heatmap_gt, offset_x_gt, offset_y_gt,
                          (n - 1) \div H, (n - 1) % H, H)), LAMBDA steps :
        LET raising == {n \in 1..(W * H) : steps[n].err # "continue"}
        IN  IF raising = {}
            THEN Location("RuntimeError", <<>>, <<>>)
            ELSE steps[CHOOSE n \in raising : \A m \in raising : n <= m])

\* one iteration of the loop over the keypoints, lines 280-346: the
\* classification term added to loss (n_crit criterion calls made), the boxes
\* appended and the exception that ends the iteration
IOUKeypointTerms(heatmap_pred, heatmap_gt, heatmaps_gt, idx, batch_size, W, H) ==
    With(LocationLoop(batch_size, heatmap_gt,
                      SplitChannel(heatmaps_gt, idx * 3 + 1),
                      SplitChannel(heatmaps_gt, idx * 3 + 2), W, H), LAMBDA loc :
        [err |-> loc.err, n_crit |-> 1,
         cls_loss |-> ClassificationTerm(heatmap_pred, heatmap_gt),
         bbox_gt |-> loc.bbox_gt, bbox_pred |-> loc.bbox_pred])

IOUKeypoint(self_use_target_weight, heatmaps_pred, heatmaps_gt, tw, idx, batch_size, W, H) ==
    LET heatmap_pred == SplitChannel(heatmaps_pred, idx * 3)
        heatmap_gt == SplitChannel(heatmaps_gt, idx * 3)
        failed(e) == [err |-> e, n_crit |-> 0, cls_loss |-> Zero,
                      bbox_gt |-> <<>>, bbox_pred |-> <<>>]
    IN  IF self_use_target_weight
        THEN IF tw = None
             THEN failed("TypeError")
             ELSE IF idx >= tw.shape[2]
             THEN failed("IndexError")
             ELSE LET target_weight == WeightColumn(tw, idx)
                  IN  IF ~Broadcastable(heatmap_pred.shape, target_weight.shape)
                      THEN failed("RuntimeError")
                      ELSE IOUKeypointTerms(Mul(heatmap_pred, target_weight),
                                            Mul(heatmap_gt, target_weight),
                                            heatmaps_gt, idx, batch_size, W, H)
        ELSE IOUKeypointTerms(heatmap_pred, heatmap_gt, heatmaps_gt, idx,
                              batch_size, W, H)

\* forward: reshape raises, or the first keypoint's iteration raises, or there
\* is no keypoint and the Python float 0. is divided by the int 0
CombinedTargetIOULossCall(self_use_target_weight, self_loss_weight, out, tgt, tw) ==
    LET W == out.shape[3]
        H == out.shape[4]
        batch_size == out.shape[1]
        num_joints == out.shape[2] \div 3
    IN  IF ~CanReshape3(out)
        THEN Outcome(Raise("RuntimeError"), NoTrace)
        ELSE IF num_joints = 0
        THEN Outcome(Raise("ZeroDivisionError"), NoTrace)
        ELSE With(IOUKeypoint(self_use_target_weight, Reshape3(out),
                              Reshape3(tgt), tw, 0, batch_size, W, H), LAMBDA kp :
                Outcome(Raise(kp.err),
                        [NoTrace EXCEPT !.n_crit = kp.n_crit,
                                        !.cls_loss = kp.cls_loss,
                                        !.bbox_gt = kp.bbox_gt,
                                        !.bbox_pred = kp.bbox_pred]))

(***************************************************************************)
(* The inputs of the model: every loss module the constructors build and   *)
(* every forward argument within the bounds.                               *)
(***************************************************************************)
Tensors(shape, vals) == {Tensor(shape, d) : d \in [1..Prod(shape) -> vals]}

\* the tensor of the given shape with every element v
Full(shape, v) == Tensor(shape, MkSeq(Prod(shape), LAMBDA f : v))

\* shapes [B,K,H,W] of the heatmap losses
HeatmapShapes ==
    {s \in (1..MaxB) \X (1..MaxK) \X (1..MaxHW) \X (1..MaxHW) :
        Prod(s) <= MaxNumel}

\* shapes [B,3K,H,W] of the combined-target loss with at most n cells B*K*H*W
CombinedShapes(n) ==
    {<<s[1], 3 * s[2], s[3], s[4]>> :
        s \in {x \in (1..MaxB) \X (1..MaxJoints) \X (1..MaxHW) \X (1..MaxHW) :
                 Prod(x) <= n}}

\* target_weights of shape [B,K]
WeightTensors(nb, nk) == Tensors(<<nb, nk>>, WeightVals)

\* target_weights whose keypoint dimension is not K (all entries equal)
MismatchedWeights(nb, nk) ==
    {Full(<<nb, kw>>, v) : kw \in (1..(nk + 1)) \ {nk}, v \in WeightVals}

\* the target_weights passed to a loss over nk keypoints
WeightArgs(utw, nb, nk) ==
    IF utw
    THEN {None} \cup WeightTensors(nb, nk) \cup MismatchedWeights(nb, nk)
    ELSE {None} \cup {Full(<<nb, nk>>, v) : v \in WeightVals \ {0}}

InitCall ==
    /\ pc = "call"
    /\ result = NoResult
    /\ trace = NoTrace
    /\ frames = <<>>

\* KeypointMSELoss(use_target_weight, loss_weight) and its forward arguments
InitKeypointMSELoss ==
    /\ cls = "KeypointMSELoss"
    /\ use_target_weight \in BOOLEAN
    /\ loss_weight \in 1..MaxLossWeight
    /\ topk = 0
    /\ \E s \in HeatmapShapes :
          /\ output \in Tensors(s, OutVals)
          /\ target \in Tensors(s, TgtVals)
          /\ target_weights \in WeightArgs(use_target_weight, s[1], s[2])
    /\ InitCall

\* the per-keypoint heatmaps of the [1,10,2,2] example: 4 * L[0,k], the sum
\* of the squares of row k, is 36, 4, 32, 8, 28, 12, 24, 16, 20, 0 against a
\* zero target, so the losses L[0,.] are 9, 1, 8, 2, 7, 3, 6, 4, 5, 0
ExampleOutput ==
    Tensor(<<1, 10, 2, 2>>,
           <<3, 3, 3, 3>> \o <<1, 1, 1, 1>> \o <<4, 4, 0, 0>> \o <<2, 2, 0, 0>>
           \o <<5, 1, 1, 1>> \o <<3, 1, 1, 1>> \o <<4, 2, 2, 0>> \o <<2, 2, 2, 2>>
           \o <<4, 2, 0, 0>> \o <<0, 0, 0, 0>>)

InitExample ==
    /\ cls = "KeypointOHKMMSELoss"
    /\ use_target_weight = FALSE
    /\ loss_weight = 1
    /\ topk = 3
    /\ output = ExampleOutput
    /\ target = Full(<<1, 10, 2, 2>>, 0)
    /\ target_weights = None
    /\ InitCall

\* KeypointOHKMMSELoss(use_target_weight, topk, loss_weight) and its forward
\* arguments; __init__ asserts topk > 0
InitKeypointOHKMMSELoss ==
    \/ /\ cls = "KeypointOHKMMSELoss"
       /\ use_target_weight \in BOOLEAN
       /\ loss_weight \in 1..MaxLossWeight
       /\ topk \in 1..MaxTopk
       /\ \E s \in HeatmapShapes :
             /\ output \in Tensors(s, OutVals)
             /\ target \in Tensors(s, TgtVals)
             /\ target_weights \in WeightArgs(use_target_weight, s[1], s[2])
       /\ InitCall
    \/ InitExample

\* CombinedTargetMSELoss(use_target_weight, loss_weight) and its forward
\* arguments
InitCombinedTargetMSELoss ==
    /\ cls = "CombinedTargetMSELoss"
    /\ use_target_weight \in BOOLEAN
    /\ loss_weight \in 1..MaxLossWeight
    /\ topk = 0
    /\ \E s \in CombinedShapes(IF use_target_weight THEN MaxWeightedCells
                               ELSE MaxCells) :
          /\ output \in Tensors(s, OutVals)
          /\ target \in Tensors(s, TgtVals)
          /\ target_weights \in WeightArgs(use_target_weight, s[1], s[2] \div 3)
    /\ InitCall

\* the tensors of shape s passed to the IoU variant: the constant ones, also
\* of negative elements, and for shapes of at most MaxCells cells every tensor
\* over TgtVals
IOUTensors(s) ==
    {Full(s, v) : v \in SignedVals}
        \cup (IF Prod(s) <= 3 * MaxCells THEN Tensors(s, TgtVals) ELSE {})

\* CombinedTargetIOULoss(use_target_weight, loss_weight) and its forward
\* arguments
InitCombinedTargetIOULoss ==
    /\ cls = "CombinedTargetIOULoss"
    /\ use_target_weight \in BOOLEAN
    /\ loss_weight \in 1..MaxLossWeight
    /\ topk = 0
    /\ \E s \in CombinedShapes(MaxIOUCells) :
          /\ output \in {Full(s, v) : v \in SignedVals}
          /\ target \in IOUTensors(s)
          /\ target_weights \in WeightArgs(use_target_weight, s[1], s[2] \div 3)
    /\ InitCall

\* shapes [B,K,H,W] without elements: no sample or no keypoint
ZeroSizedShapes ==
    {s \in (0..MaxB) \X (0..MaxK) \X (1..MaxHW) \X (1..MaxHW) :
        s[1] = 0 \/ s[2] = 0}

\* shapes [B,C,H,W] of the combined-target loss with no sample or with fewer
\* than three channels, that is no keypoint
ZeroSizedCombinedShapes ==
    {s \in (0..MaxB) \X (0..(3 * MaxJoints)) \X (1..MaxHW) \X (1..MaxHW) :
        s[1] = 0 \/ s[2] < 3}

\* the target_weights passed along with a tensor of no sample or no keypoint
ZeroSizedWeightArgs(nb, nk) ==
    {None} \cup {Full(<<nb, nk>>, v) : v \in WeightVals}

\* the three losses called on a batch of no sample or on no keypoint
InitZeroSized ==
    /\ use_target_weight \in BOOLEAN
    /\ loss_weight \in 1..MaxLossWeight
    /\ \/ /\ cls = "KeypointMSELoss"
          /\ topk = 0
          /\ \E s \in ZeroSizedShapes :
                /\ output = Full(s, 0)
                /\ target = Full(s, 0)
                /\ target_weights \in ZeroSizedWeightArgs(s[1], s[2])
       \/ /\ cls = "KeypointOHKMMSELoss"
          /\ topk \in 1..MaxTopk
          /\ \E s \in ZeroSizedShapes :
                /\ output = Full(s, 0)
                /\ target = Full(s, 0)
                /\ target_weights \in ZeroSizedWeightArgs(s[1], s[2])
       \/ /\ cls = "CombinedTargetMSELoss"
          /\ topk = 0
          /\ \E s \in ZeroSizedCombinedShapes :
                /\ output \in {Full(s, v) : v \in OutVals}
                /\ target \in {Full(s, v) : v \in TgtVals}
                /\ target_weights \in ZeroSizedWeightArgs(s[1], s[2] \div 3)
    /\ InitCall

Init ==
    \/ InitKeypointMSELoss
    \/ InitKeypointOHKMMSELoss
    \/ InitCombinedTargetMSELoss

(***************************************************************************)
(* The operations: one forward call of the module on its arguments.        *)
(***************************************************************************)
KeypointMSELoss_forward ==
    /\ pc = "call"
    /\ cls = "KeypointMSELoss"
    /\ \E r \in {KeypointMSELossCall(use_target_weight, loss_weight, output,
                                      target, target_weights)} :
           /\ result' = r.result
           /\ trace' = r.trace
    /\ pc' = "done"
    /\ UNCHANGED <<cls, use_target_weight, topk, loss_weight, output, target,
                   target_weights, frames>>

KeypointOHKMMSELoss_forward ==
    /\ pc = "call"
    /\ cls = "KeypointOHKMMSELoss"
    /\ \E r \in KeypointOHKMMSELossCall(use_target_weight, topk, loss_weight,
                                        output, target, target_weights) :
           /\ result' = r.result
           /\ trace' = r.trace
    /\ pc' = "done"
    /\ UNCHANGED <<cls, use_target_weight, topk, loss_weight, output, target,
                   target_weights, frames>>

CombinedTargetMSELoss_forward ==
    /\ pc = "call"
    /\ cls = "CombinedTargetMSELoss"
    /\ \E r \in {CombinedTargetMSELossCall(use_target_weight, loss_weight,
                                            output, target, target_weights)} :
           /\ result' = r.result
           /\ trace' = r.trace
    /\ pc' = "done"
    /\ UNCHANGED <<cls, use_target_weight, topk, loss_weight, output, target,
                   target_weights, frames>>

CombinedTargetIOULoss_forward ==
    /\ pc = "call"
    /\ cls = "CombinedTargetIOULoss"
    /\ \E r \in {CombinedTargetIOULossCall(use_target_weight, loss_weight,
                                            output, target, target_weights)} :
           /\ result' = r.result
           /\ trace' = r.trace
    /\ pc' = "done"
    /\ UNCHANGED <<cls, use_target_weight, topk, loss_weight, output, target,
                   target_weights, frames>>

Next ==
    \/ KeypointMSELoss_forward
    \/ KeypointOHKMMSELoss_forward
    \/ CombinedTargetMSELoss_forward

\* the three classes together
Spec == Init /\ [][Next]_vars

\* one class at a time
SpecKeypointMSELoss ==
    InitKeypointMSELoss /\ [][KeypointMSELoss_forward]_vars
SpecKeypointOHKMMSELoss ==
    InitKeypointOHKMMSELoss /\ [][KeypointOHKMMSELoss_forward]_vars
\* the same, for the properties of the per-sample selection of _ohkm
SpecOhkmSelection ==
    InitKeypointOHKMMSELoss /\ [][KeypointOHKMMSELoss_forward]_vars
SpecCombinedTargetMSELoss ==
    InitCombinedTargetMSELoss /\ [][CombinedTargetMSELoss_forward]_vars

SpecCombinedTargetIOULoss ==
    InitCombinedTargetIOULoss /\ [][CombinedTargetIOULoss_forward]_vars

\* shapes [B,C,H,W] whose channel count is not a multiple of 3
RemainderShapes ==
    {s \in (1..MaxB) \X (1..MaxRemainderC) \X (1..MaxHW) \X (1..MaxHW) :
        s[2] % 3 # 0 /\ Prod(s) <= MaxRemainderNumel}

\* the targets of shape s: the constant ones, and every tensor over TgtVals
\* for the shapes of at most MaxRemainderC elements
RemainderTargets(s) ==
    {Full(s, v) : v \in TgtVals}
        \cup (IF Prod(s) <= MaxRemainderC THEN Tensors(s, TgtVals) ELSE {})

\* CombinedTargetMSELoss called on tensors whose channel count is not a
\* multiple of 3
InitRemainder ==
    /\ cls = "CombinedTargetMSELoss"
    /\ use_target_weight \in BOOLEAN
    /\ loss_weight \in 1..MaxLossWeight
    /\ topk = 0
    /\ \E s \in RemainderShapes :
          /\ output \in Tensors(s, OutVals)
          /\ target \in RemainderTargets(s)
          /\ target_weights \in WeightArgs(use_target_weight, s[1], s[2] \div 3)
    /\ InitCall

SpecRemainder == InitRemainder /\ [][CombinedTargetMSELoss_forward]_vars

\* the three classes called on a batch of no sample or on no keypoint
SpecZeroSized == InitZeroSized /\ [][Next]_vars

(***************************************************************************)
(* Forward calls step by step.  frames holds the forward calls in flight   *)
(* on the one module instance: for each call the tensors the caller passed *)
(* (output, target, target_weights), its position pc and the local         *)
(* variables of forward and _ohkm.  A step is a stretch of straight-line   *)
(* code or one loop iteration; steps of different calls may interleave.    *)
(* The module's attributes are read by every call and assigned by none.    *)
(***************************************************************************)
\* a call about to run forward(out, tgt, tw):
\*   w       the local name target_weights, bound to the argument
\*   idx     the loop variable of the loop over the keypoints
\*   losses  the list `losses` of KeypointOHKMMSELoss.forward
\*   cat     `losses` after torch.cat, the argument of _ohkm
\*   i       the loop variable of _ohkm
\*   loss    the accumulator: loss, or ohkm_loss in _ohkm
\*   picks   the index sets torch.topk has returned
\*   interleaved  a step of this call was taken while another call was in
\*           flight
NewFrame(out, tgt, tw) ==
    [output |-> out, target |-> tgt, target_weights |-> tw, pc |-> "start",
     w |-> tw, idx |-> 0, losses |-> <<>>, cat |-> None, i |-> 0,
     loss |-> Zero, picks |-> <<>>, result |-> NoResult,
     interleaved |-> FALSE]

\* the call ends: forward returns v or raises e
Return(f, v) == [f EXCEPT !.pc = "done", !.result = Ok(v)]
Throw(f, e) == [f EXCEPT !.pc = "done", !.result = Raise(e)]

\* a faulty variant of Rebind: unsqueeze_ changes the caller's tensor in place
UnsqueezeInPlace(f, t) == [f EXCEPT !.w = t, !.target_weights = t]

\* target_weights = target_weights.unsqueeze(-1): the local name is bound to a
\* new tensor, the caller's tensor keeps its shape
Rebind(f, t) == [f EXCEPT !.w = t]

\* a faulty variant of AddToLoss: the accumulator is an attribute of the
\* module, one for all the calls in flight
AddToSharedLoss(fs, c, term) ==
    [k \in DOMAIN fs |-> [fs[k] EXCEPT !.loss = RAdd(@, term)]]

\* loss += term (ohkm_loss += term) in call c: the accumulator is a local
\* variable of the call
AddToLoss(fs, c, term) == [fs EXCEPT ![c].loss = RAdd(@, term)]

\* KeypointMSELoss.forward, lines 48-53: the assertions and the unsqueeze loop
KeypointMSELossCheck(f) ==
    IF ~use_target_weight
    THEN [f EXCEPT !.pc = "criterion"]
    ELSE IF f.w = None
    THEN Throw(f, "AssertionError")
    ELSE IF Ndim(f.output) < Ndim(f.w)
    THEN Throw(f, "AssertionError")
    ELSE [Rebind(f, UnsqueezeLastN(f.w, Ndim(f.output) - Ndim(f.w)))
            EXCEPT !.pc = "criterion"]

\* KeypointMSELoss.forward, lines 55-60: the criterion and the return
KeypointMSELossCriterion(f) ==
    IF ~use_target_weight
    THEN Return(f, Scale(MSEMean(f.output, f.target), loss_weight))
    ELSE IF ~Broadcastable(f.output.shape, f.w.shape)
    THEN Throw(f, "RuntimeError")
    ELSE Return(f, Scale(WeightedMSE(f.output, f.target, f.w), loss_weight))

\* KeypointOHKMMSELoss.forward, lines 203-208: the guard, losses = []
KeypointOHKMMSELossGuard(f) ==
    IF TopkExceeds(f.output.shape[2], topk)
    THEN Throw(f, "ValueError")
    ELSE [f EXCEPT !.pc = "keypoints", !.idx = 0, !.losses = <<>>]

\* KeypointOHKMMSELoss.forward, lines 209-216: the iteration for idx
KeypointOHKMMSELossKeypoint(f) ==
    IF use_target_weight /\ f.w = None
    THEN Throw(f, "TypeError")
    ELSE IF use_target_weight /\ f.idx >= f.w.shape[2]
    THEN Throw(f, "IndexError")
    ELSE [f EXCEPT !.losses = Append(@, KeypointLoss(use_target_weight,
                                        f.output, f.target, f.w, f.idx)),
                   !.idx = @ + 1]

\* KeypointOHKMMSELoss, lines 218-219 and 173-174: the per-keypoint means are
\* concatenated, _ohkm starts with ohkm_loss = 0.
KeypointOHKMMSELossCat(f) ==
    [f EXCEPT !.cat = CatLosses(f.losses), !.pc = "samples", !.i = 0,
              !.loss = Zero]

\* KeypointOHKMMSELoss._ohkm, lines 181-182 and forward, line 221
KeypointOHKMMSELossReturn(f) ==
    IF f.cat.shape[1] = 0
    THEN Throw(f, "ZeroDivisionError")
    ELSE Return(f, Scale(RDivInt(f.loss, f.cat.shape[1]), loss_weight))

\* CombinedTargetMSELoss.forward, lines 108-115: the reshapes, loss = 0.
CombinedTargetMSELossReshape(f) ==
    IF ~CanReshape3(f.output)
    THEN Throw(f, "RuntimeError")
    ELSE [f EXCEPT !.pc = "keypoints", !.idx = 0, !.loss = Zero]

\* CombinedTargetMSELoss.forward, line 134
CombinedTargetMSELossReturn(f) ==
    IF f.output.shape[2] \div 3 = 0
    THEN Throw(f, "ZeroDivisionError")
    ELSE Return(f, Scale(PerJoint(f.loss, f.output.shape[2] \div 3), loss_weight))

\* the tensor of the given shape with the elements 1, 2, 3, ...
Ramp(shape) == Tensor(shape, MkSeq(Prod(shape), LAMBDA f : f))

\* the B and K of the tensors passed to the calls run step by step
FrameSizes ==
    {s \in (1..MaxB) \X (1..MaxK) : s[1] * s[2] <= MaxFrameNumel}

\* the calls of forward on arguments of nb samples and nk keypoints: output
\* and target of shape [nb,nc,1,1], target_weights of shape [nb,nk] or None
FramesOf(nb, nk, nc, utw) ==
    {NewFrame(out, tgt, tw) :
        out \in {Full(<<nb, nc, 1, 1>>, 0), Ramp(<<nb, nc, 1, 1>>)},
        tgt \in {Full(<<nb, nc, 1, 1>>, v) : v \in TgtVals},
        tw \in IF utw THEN {None, Full(<<nb, nk>>, 2), Ramp(<<nb, nk>>)}
               ELSE {None}}

\* the calls a module of class c may be given
FrameArgs(c, utw) ==
    UNION {FramesOf(s[1], s[2],
                    IF c = "CombinedTargetMSELoss" THEN 3 * s[2] ELSE s[2], utw) :
              s \in FrameSizes}

\* one module instance and MaxCalls forward calls on it, none begun; topk is
\* at most the largest K, so that both K < topk and K >= topk occur
InitFrames ==
    /\ cls \in {"KeypointMSELoss", "KeypointOHKMMSELoss", "CombinedTargetMSELoss"}
    /\ use_target_weight \in BOOLEAN
    /\ loss_weight \in 1..MaxLossWeight
    /\ topk \in IF cls = "KeypointOHKMMSELoss" THEN 1..MaxFrameNumel ELSE {0}
    /\ frames \in [1..MaxCalls -> FrameArgs(cls, use_target_weight)]
    /\ output = None /\ target = None /\ target_weights = None
    /\ pc = "steps" /\ result = NoResult /\ trace = NoTrace

\* another call than c is between its first and its last step
OtherInFlight(c) ==
    \E d \in DOMAIN frames : d # c /\ frames[d].pc \notin {"start", "done"}

\* call c has taken a step that leads to the frames fs; the step is noted as
\* interleaved when another call is in flight
Stepped(c, fs) ==
    /\ frames' = [fs EXCEPT ![c].interleaved = @ \/ OtherInFlight(c)]
    /\ UNCHANGED <<cls, use_target_weight, topk, loss_weight, output, target,
                   target_weights, pc, result, trace>>

KeypointMSELoss_check(c) ==
    /\ cls = "KeypointMSELoss" /\ frames[c].pc = "start"
    /\ Stepped(c, [frames EXCEPT ![c] = KeypointMSELossCheck(@)])

KeypointMSELoss_criterion(c) ==
    /\ cls = "KeypointMSELoss" /\ frames[c].pc = "criterion"
    /\ Stepped(c, [frames EXCEPT ![c] = KeypointMSELossCriterion(@)])

KeypointOHKMMSELoss_guard(c) ==
    /\ cls = "KeypointOHKMMSELoss" /\ frames[c].pc = "start"
    /\ Stepped(c, [frames EXCEPT ![c] = KeypointOHKMMSELossGuard(@)])

KeypointOHKMMSELoss_keypoint(c) ==
    /\ cls = "KeypointOHKMMSELoss" /\ frames[c].pc = "keypoints"
    /\ frames[c].idx < frames[c].output.shape[2]
    /\ Stepped(c, [frames EXCEPT ![c] = KeypointOHKMMSELossKeypoint(@)])

KeypointOHKMMSELoss_cat(c) ==
    /\ cls = "KeypointOHKMMSELoss" /\ frames[c].pc = "keypoints"
    /\ frames[c].idx = frames[c].output.shape[2]
    /\ Stepped(c, [frames EXCEPT ![c] = KeypointOHKMMSELossCat(@)])

\* _ohkm, lines 175-180: the iteration for sample i
KeypointOHKMMSELoss_sample(c) ==
    /\ cls = "KeypointOHKMMSELoss" /\ frames[c].pc = "samples"
    /\ frames[c].i < frames[c].cat.shape[1]
    /\ \E topk_idx \in TopkIndexSets(Row(frames[c].cat, frames[c].i), topk) :
          Stepped(c, AddToLoss([frames EXCEPT ![c].i = @ + 1,
                                              ![c].picks = Append(@, topk_idx)],
                               c, OhkmSample(Row(frames[c].cat, frames[c].i),
                                             topk_idx, topk)))

KeypointOHKMMSELoss_return(c) ==
    /\ cls = "KeypointOHKMMSELoss" /\ frames[c].pc = "samples"
    /\ frames[c].i = frames[c].cat.shape[1]
    /\ Stepped(c, [frames EXCEPT ![c] = KeypointOHKMMSELossReturn(@)])

CombinedTargetMSELoss_reshape(c) ==
    /\ cls = "CombinedTargetMSELoss" /\ frames[c].pc = "start"
    /\ Stepped(c, [frames EXCEPT ![c] = CombinedTargetMSELossReshape(@)])

\* lines 116-133: the iteration for idx
CombinedTargetMSELoss_keypoint(c) ==
    /\ cls = "CombinedTargetMSELoss" /\ frames[c].pc = "keypoints"
    /\ frames[c].idx < frames[c].output.shape[2] \div 3
    /\ Stepped(c,
         With(CombinedKeypoint(use_target_weight, Reshape3(frames[c].output),
                               Reshape3(frames[c].target), frames[c].w,
                               frames[c].idx), LAMBDA kp :
            IF kp.err # "none"
            THEN [frames EXCEPT ![c] = Throw(@, kp.err)]
            ELSE AddToLoss([frames EXCEPT ![c].idx = @ + 1], c,
                           RAdd(kp.cls_loss, kp.reg_loss))))

CombinedTargetMSELoss_return(c) ==
    /\ cls = "CombinedTargetMSELoss" /\ frames[c].pc = "keypoints"
    /\ frames[c].idx = frames[c].output.shape[2] \div 3
    /\ Stepped(c, [frames EXCEPT ![c] = CombinedTargetMSELossReturn(@)])

\* one step of call c
Step(c) ==
    \/ KeypointMSELoss_check(c)
    \/ KeypointMSELoss_criterion(c)
    \/ KeypointOHKMMSELoss_guard(c)
    \/ KeypointOHKMMSELoss_keypoint(c)
    \/ KeypointOHKMMSELoss_cat(c)
    \/ KeypointOHKMMSELoss_sample(c)
    \/ KeypointOHKMMSELoss_return(c)
    \/ CombinedTargetMSELoss_reshape(c)
    \/ CombinedTargetMSELoss_keypoint(c)
    \/ CombinedTargetMSELoss_return(c)

\* the calls before call c have ended
InTurn(c) == \A d \in 1..(c - 1) : frames[d].pc = "done"

\* the calls run one after the other: a call steps when the calls before it
\* have ended
NextInSequence ==
    \E c \in 1..MaxCalls :
        \/ InTurn(c) /\ KeypointMSELoss_check(c)
        \/ InTurn(c) /\ KeypointMSELoss_criterion(c)
        \/ InTurn(c) /\ KeypointOHKMMSELoss_guard(c)
        \/ InTurn(c) /\ KeypointOHKMMSELoss_keypoint(c)
        \/ InTurn(c) /\ KeypointOHKMMSELoss_cat(c)
        \/ InTurn(c) /\ KeypointOHKMMSELoss_sample(c)
        \/ InTurn(c) /\ KeypointOHKMMSELoss_return(c)
        \/ InTurn(c) /\ CombinedTargetMSELoss_reshape(c)
        \/ InTurn(c) /\ CombinedTargetMSELoss_keypoint(c)
        \/ InTurn(c) /\ CombinedTargetMSELoss_return(c)

\* the calls run concurrently: any call in flight takes the next step
NextInterleaved == \E c \in 1..MaxCalls : Step(c)

\* forward calls on one instance, one after the other
SpecCallSequence == InitFrames /\ [][NextInSequence]_vars

\* forward calls on one instance, interleaved step by step
SpecInterleavedCalls == InitFrames /\ [][NextInterleaved]_vars

(***************************************************************************)
(* Properties.  The reference values are computed from the elements of     *)
(* output, target and target_weights directly, by index, without the       *)
(* tensor operations above.  A rational <<n, d>> equals a / b (b > 0)      *)
(* when n * b = a * d.                                                     *)
(***************************************************************************)
Done == pc = "done"
Returned == result.tag = "value"
Raised(e) == result.tag = "error" /\ result.err = e
RatIs(r, a, b) == r[2] > 0 /\ r[1] * b = a * r[2]

\* B, K (or 3K) and H*W of the forward arguments
NumB == output.shape[1]
NumK == output.shape[2]
NumHW == output.shape[3] * output.shape[4]

\* target_weights has shape [B,nk]
WeightsShaped(nk) == target_weights # None /\ target_weights.shape = <<NumB, nk>>

\* the weight of sample b, keypoint k (1-based): w[b,k], or 1 when
\* use_target_weight is false
RefWeight(b, k) ==
    IF use_target_weight THEN target_weights.data[(b - 1) * NumK + k] ELSE 1

\* element (b, c, j) of a [B,C,H,W] tensor: sample b, channel c, position j
\* (1-based)
RefAt(t, b, c, j) == t.data[((b - 1) * NumK + (c - 1)) * NumHW + j]

\* sum over the H*W positions of (w*output - w*target)^2 for sample b,
\* keypoint k
RefSqErr(b, k) ==
    ISum(MkSeq(NumHW, LAMBDA j :
        (RefWeight(b, k) * RefAt(output, b, k, j)
           - RefWeight(b, k) * RefAt(target, b, k, j)) ^ 2))

\* sum over all B*K*H*W elements of w[b,k]^2 * (output - target)^2
RefTotalSqErr ==
    ISum(MkSeq(NumB, LAMBDA b :
        ISum(MkSeq(NumK, LAMBDA k :
            ISum(MkSeq(NumHW, LAMBDA j :
                RefWeight(b, k) * RefWeight(b, k)
                  * (RefAt(output, b, k, j) - RefAt(target, b, k, j)) ^ 2))))))

\* the sum of the k largest entries of s: the largest sum k entries have
RefTopSum(s, k) ==
    LET sums == {ISum(MkSeq(Len(s), LAMBDA i : IF i \in S THEN s[i] ELSE 0)) :
                    S \in {T \in SUBSET (1..Len(s)) : Cardinality(T) = k}}
    IN  CHOOSE m \in sums : \A x \in sums : x <= m

\* sum over the samples of the sum of the topk largest H*W * L[b,.]
RefOhkmSum ==
    ISum(MkSeq(NumB, LAMBDA b :
        RefTopSum(MkSeq(NumK, LAMBDA k : RefSqErr(b, k)), topk)))

\* C1: KeypointOHKMMSELoss.forward on an output with fewer keypoints than
\* topk raises the configuration error (ValueError) having made no
\* per-keypoint criterion call and no top-k selection, whatever the batch;
\* it returns no loss value.
C1_TopkAboveKeypointsFails ==
    (cls = "KeypointOHKMMSELoss" /\ Done /\ NumK < topk)
        => /\ Raised("ValueError")
           /\ trace.n_crit = 0
           /\ trace.n_topk = 0

\* two samples, two keypoints, topk = 3: the call has failed
C1_Witness ==
    /\ cls = "KeypointOHKMMSELoss" /\ Done
    /\ NumB = 2 /\ NumK = 2 /\ topk = 3
    /\ Raised("ValueError")

\* C2: for K >= topk (and target_weights of shape [B,K] when
\* use_target_weight is set) KeypointOHKMMSELoss.forward returns
\* loss_weight * (1/B) * sum over b of (sum of the topk largest L[b,.]) / topk
\* with L[b,k] the mean over H*W of (w*output - w*target)^2, whichever
\* indices torch.topk picks among equal losses; the single sample with K = 10,
\* topk = 3 and losses 9,1,8,2,7,3,6,4,5,0 gives exactly 8.
C2_OhkmValue ==
    /\ (/\ cls = "KeypointOHKMMSELoss" /\ Done /\ NumK >= topk
        /\ use_target_weight => WeightsShaped(NumK))
           => /\ Returned
              /\ RatIs(result.val, loss_weight * RefOhkmSum, NumHW * topk * NumB)
    /\ (cls = "KeypointOHKMMSELoss" /\ Done /\ output = ExampleOutput)
           => /\ MkSeq(10, LAMBDA k : RefSqErr(1, k))
                   = <<36, 4, 32, 8, 28, 12, 24, 16, 20, 0>>
              /\ result = Ok(<<8, 1>>)

\* two samples with different losses per keypoint, weighted, topk = 1
C2_Witness ==
    /\ cls = "KeypointOHKMMSELoss" /\ Done /\ use_target_weight
    /\ NumB = 2 /\ NumK = 2 /\ topk = 1 /\ WeightsShaped(2)
    /\ RefSqErr(1, 1) > RefSqErr(1, 2) /\ RefSqErr(2, 1) < RefSqErr(2, 2)
    /\ Returned /\ trace.topk_idx = <<{0}, {1}>>

\* C3: KeypointMSELoss.forward with use_target_weight disabled returns
\* loss_weight times the mean of (output - target)^2 over all B*K*H*W
\* elements.
C3_UnweightedMSE ==
    (cls = "KeypointMSELoss" /\ Done /\ ~use_target_weight)
        => /\ Returned
           /\ RatIs(result.val, loss_weight * RefTotalSqErr, NumB * NumK * NumHW)

\* four elements, three of them wrong: the mean is 3/4
C3_Witness ==
    /\ cls = "KeypointMSELoss" /\ Done /\ ~use_target_weight
    /\ NumB = 2 /\ NumK = 2 /\ loss_weight = 1
    /\ RefTotalSqErr = 3 /\ result = Ok(<<3, 4>>)

\* C4: KeypointMSELoss.forward with use_target_weight enabled and
\* target_weights of shape [B,K] returns
\* loss_weight * sum(w[b,k]^2 * (output - target)^2) / (B*K*H*W): the divisor
\* is the element count, whatever the number of zero weights.
C4_WeightedMSE ==
    (cls = "KeypointMSELoss" /\ Done /\ use_target_weight /\ WeightsShaped(NumK))
        => /\ Returned
           /\ RatIs(result.val, loss_weight * RefTotalSqErr, NumB * NumK * NumHW)

\* weights 2 and 0 on two keypoints of two positions each, every element
\* wrong: (4 + 4 + 0 + 0) / 4
C4_Witness ==
    /\ cls = "KeypointMSELoss" /\ Done /\ use_target_weight
    /\ output.shape = <<1, 2, 2, 1>> /\ loss_weight = 1
    /\ target_weights = Tensor(<<1, 2>>, <<2, 0>>)
    /\ \A f \in 1..4 : output.data[f] # target.data[f]
    /\ result = Ok(<<2, 1>>)

\* C5: KeypointMSELoss.forward with use_target_weight enabled and every
\* weight of the [B,K] target_weights zero returns exactly 0, whatever output
\* and target are.
C5_ZeroWeights ==
    (/\ cls = "KeypointMSELoss" /\ Done /\ use_target_weight
     /\ WeightsShaped(NumK)
     /\ \A f \in 1..Len(target_weights.data) : target_weights.data[f] = 0)
        => result = Ok(Zero)

\* all weights zero although output and target differ everywhere
C5_Witness ==
    /\ cls = "KeypointMSELoss" /\ Done /\ use_target_weight
    /\ NumB = 2 /\ NumK = 2 /\ target_weights = Full(<<2, 2>>, 0)
    /\ \A f \in 1..4 : output.data[f] # target.data[f]
    /\ result = Ok(Zero)

\* the outcomes of forward on the same arguments for the same module
\* constructed with loss_weight = w
ForwardWith(w) ==
    CASE cls = "KeypointMSELoss" ->
            {KeypointMSELossCall(use_target_weight, w, output, target,
                                 target_weights)}
      [] cls = "KeypointOHKMMSELoss" ->
            KeypointOHKMMSELossCall(use_target_weight, topk, w, output, target,
                                    target_weights)
      [] cls = "CombinedTargetMSELoss" ->
            {CombinedTargetMSELossCall(use_target_weight, w, output, target,
                                       target_weights)}

\* C6: what forward returns for a KeypointMSELoss, CombinedTargetMSELoss or
\* KeypointOHKMMSELoss constructed with loss_weight = 2 is exactly twice what
\* the same module constructed with loss_weight = 1 returns on the same
\* arguments (and it raises exactly when that one raises).
C6_LossWeightTwoDoubles ==
    (Done /\ loss_weight = 2)
        => \A r \in ForwardWith(1) :
              /\ result.tag = r.result.tag
              /\ result.err = r.result.err
              /\ Returned =>
                    /\ result.val[2] > 0 /\ r.result.val[2] > 0
                    /\ result.val[1] * r.result.val[2]
                          = 2 * r.result.val[1] * result.val[2]

\* a weighted online-hard-keypoint loss of 1/2 at loss_weight 1, of 1 at 2
C6_Witness ==
    /\ cls = "KeypointOHKMMSELoss" /\ Done /\ loss_weight = 2
    /\ use_target_weight /\ WeightsShaped(NumK) /\ NumK = 2 /\ topk = 2
    /\ result = Ok(<<4, 1>>)
    /\ \E r \in ForwardWith(1) : r.result = Ok(<<2, 1>>)

\* the number of keypoints of a combined-target tensor [B,3K,H,W]
NumJoints == NumK \div 3

\* sum over the B*H*W elements of keypoint k (1-based) of the squared errors
\* of its classification map (channel 3k), of its x-offset map (3k+1) and of
\* its y-offset map (3k+2), the offsets multiplied by the ground-truth
\* classification map
RefCombinedSqErr(k) ==
    ISum(MkSeq(NumB, LAMBDA b :
        ISum(MkSeq(NumHW, LAMBDA j :
            (RefAt(output, b, 3 * k - 2, j) - RefAt(target, b, 3 * k - 2, j)) ^ 2
            + (RefAt(target, b, 3 * k - 2, j) * RefAt(output, b, 3 * k - 1, j)
                 - RefAt(target, b, 3 * k - 2, j) * RefAt(target, b, 3 * k - 1, j)) ^ 2
            + (RefAt(target, b, 3 * k - 2, j) * RefAt(output, b, 3 * k, j)
                 - RefAt(target, b, 3 * k - 2, j) * RefAt(target, b, 3 * k, j)) ^ 2))))

\* the same for the classification map alone
RefClassificationSqErr(k) ==
    ISum(MkSeq(NumB, LAMBDA b :
        ISum(MkSeq(NumHW, LAMBDA j :
            (RefAt(output, b, 3 * k - 2, j) - RefAt(target, b, 3 * k - 2, j)) ^ 2))))

\* C7: CombinedTargetMSELoss.forward (use_target_weight disabled) on
\* [B,3K,H,W] tensors returns loss_weight * (1/K) * sum over k of
\* 0.5*MSE(cls) + 0.5*MSE(cls_gt*offx) + 0.5*MSE(cls_gt*offy), channels 3k,
\* 3k+1, 3k+2 being keypoint k's maps and each MSE the mean over B*H*W.
C7_CombinedValue ==
    (cls = "CombinedTargetMSELoss" /\ Done /\ ~use_target_weight)
        => /\ Returned
           /\ RatIs(result.val,
                    loss_weight * ISum(MkSeq(NumJoints, LAMBDA k : RefCombinedSqErr(k))),
                    2 * NumB * NumHW * NumJoints)

\* two keypoints: the first wrong in its classification map only, the second
\* in its masked x offset only: (0.5 + 0.5) / 2
C7_Witness ==
    /\ cls = "CombinedTargetMSELoss" /\ Done /\ ~use_target_weight
    /\ loss_weight = 1 /\ output.shape = <<1, 6, 1, 1>>
    /\ RefClassificationSqErr(1) = 1 /\ RefCombinedSqErr(1) = 1
    /\ RefClassificationSqErr(2) = 0 /\ RefCombinedSqErr(2) = 1
    /\ result = Ok(<<1, 2>>)

\* every ground-truth classification value is zero
AllClassificationGtZero ==
    \A b \in 1..NumB : \A k \in 1..NumJoints : \A j \in 1..NumHW :
        RefAt(target, b, 3 * k - 2, j) = 0

\* C8: when every ground-truth classification value is zero the regression
\* terms CombinedTargetMSELoss.forward adds are exactly zero whatever the
\* offset maps are, and the loss returned is the classification term alone:
\* loss_weight * (sum of the classification terms) / K.
C8_ZeroGtMasksOffsets ==
    (cls = "CombinedTargetMSELoss" /\ Done /\ AllClassificationGtZero)
        => /\ trace.reg_loss = Zero
           /\ Returned =>
                 /\ result.val[2] > 0
                 /\ result.val[1] * trace.cls_loss[2] * NumJoints
                       = loss_weight * trace.cls_loss[1] * result.val[2]
           /\ (Returned /\ ~use_target_weight) =>
                 RatIs(result.val,
                       loss_weight * ISum(MkSeq(NumJoints, LAMBDA k :
                                                   RefClassificationSqErr(k))),
                       2 * NumB * NumHW * NumJoints)

\* zero ground-truth classification, predicted offsets all 1 against
\* ground-truth offsets all 0, and a non-zero loss from the classification
\* map
C8_Witness ==
    /\ cls = "CombinedTargetMSELoss" /\ Done /\ AllClassificationGtZero
    /\ NumB = 2 /\ NumJoints = 1
    /\ \A b \in 1..2 : \A c \in 2..3 :
          RefAt(output, b, c, 1) = 1 /\ RefAt(target, b, c, 1) = 0
    /\ Returned /\ result.val # Zero

\* C9: KeypointMSELoss.forward with use_target_weight enabled and
\* target_weights None raises (the assertion on target_weights) before the
\* criterion is called, returning no value; with use_target_weight disabled
\* a None target_weights is accepted and the loss is returned.
C9_NoneWeights ==
    /\ (/\ cls = "KeypointMSELoss" /\ Done
        /\ use_target_weight /\ target_weights = None)
           => Raised("AssertionError") /\ trace.n_crit = 0
    /\ (/\ cls = "KeypointMSELoss" /\ Done
        /\ ~use_target_weight /\ target_weights = None)
           => Returned /\ trace.n_crit = 1

\* weighting enabled, no weights, output and target different: no value
C9_Witness ==
    /\ cls = "KeypointMSELoss" /\ Done
    /\ use_target_weight /\ target_weights = None
    /\ output # target /\ NumK = 3
    /\ Raised("AssertionError")

\* C10: with use_target_weight enabled and target_weights whose keypoint
\* dimension differs from the K of output, forward of KeypointMSELoss and of
\* KeypointOHKMMSELoss fails and returns no loss value.
C10_MismatchedWeightsFail ==
    (/\ cls \in {"KeypointMSELoss", "KeypointOHKMMSELoss"} /\ Done
     /\ use_target_weight /\ target_weights # None
     /\ target_weights.shape[2] # NumK)
        => result.tag = "error"

\* KeypointOHKMMSELoss returns a loss for weights with one keypoint too many
C10_Witness ==
    /\ cls = "KeypointOHKMMSELoss" /\ Done /\ use_target_weight
    /\ target_weights # None /\ target_weights.shape[2] = NumK + 1
    /\ Returned

\* the forward arguments have no sample (B = 0) or no keypoint (K = 0; for
\* the combined-target loss, fewer than three channels)
ZeroSized ==
    \/ NumB = 0
    \/ IF cls = "CombinedTargetMSELoss" THEN NumK < 3 ELSE NumK = 0

\* C11: a forward call of KeypointMSELoss, CombinedTargetMSELoss or
\* KeypointOHKMMSELoss on a batch of no sample or on an output of no keypoint
\* fails with an error: it returns no value, NaN included.
C11_ZeroSizedFails ==
    (Done /\ ZeroSized) => result.tag = "error"

\* KeypointMSELoss returns NaN for a batch of no sample
C11_Witness ==
    /\ cls = "KeypointMSELoss" /\ Done /\ NumB = 0 /\ NumK = 2
    /\ result = Ok(NaN)

\* H*W times the sum of the losses L[b,k] of the keypoints torch.topk selected
\* for sample b (1-based)
RefSelectedSum(b) ==
    ISum(MkSeq(NumK, LAMBDA k :
        IF (k - 1) \in trace.topk_idx[b] THEN RefSqErr(b, k) ELSE 0))

\* C12: when KeypointOHKMMSELoss.forward returns, torch.topk has selected
\* exactly topk keypoints for every sample, the loss returned is
\* loss_weight * (1/B) * sum over b of (sum of the selected L[b,.]) / topk, and
\* every other selection torch.topk may make among equal losses returns the
\* same loss.
C12_TiesGiveSameLoss ==
    (cls = "KeypointOHKMMSELoss" /\ Done /\ Returned)
        => /\ Len(trace.topk_idx) = NumB
           /\ \A b \in 1..NumB :
                 /\ Cardinality(trace.topk_idx[b]) = topk
                 /\ trace.topk_idx[b] \subseteq 0..(NumK - 1)
           /\ (use_target_weight => WeightsShaped(NumK))
                 => RatIs(result.val,
                          loss_weight * ISum(MkSeq(NumB, LAMBDA b : RefSelectedSum(b))),
                          NumHW * topk * NumB)
           /\ \A r \in KeypointOHKMMSELossCall(use_target_weight, topk,
                          loss_weight, output, target, target_weights) :
                 r.result = result

\* losses 0, 0, 1 and topk = 2: keypoints 1 and 2 were selected, keypoints 0
\* and 2 could have been
C12_Witness ==
    /\ cls = "KeypointOHKMMSELoss" /\ Done /\ Returned
    /\ NumB = 1 /\ NumK = 3 /\ topk = 2 /\ ~use_target_weight
    /\ MkSeq(3, LAMBDA k : RefSqErr(1, k)) = <<0, 0, 1>>
    /\ trace.topk_idx = <<{1, 2}>>
    /\ \E r \in KeypointOHKMMSELossCall(use_target_weight, topk, loss_weight,
                      output, target, target_weights) :
          r.trace.topk_idx = <<{0, 2}>>

\* the weight of sample b, keypoint k (1-based) of a combined-target tensor:
\* w[b,k], or 1 when use_target_weight is false
RefJointWeight(b, k) ==
    IF use_target_weight THEN target_weights.data[(b - 1) * NumJoints + k] ELSE 1

\* the arguments are well-shaped: at least one sample and one keypoint, and
\* target_weights of shape [B,K] when use_target_weight is set
CombinedArgsValid ==
    /\ NumB >= 1 /\ NumJoints >= 1 /\ NumK = 3 * NumJoints
    /\ use_target_weight => WeightsShaped(NumJoints)

\* the samples b, keypoints k and spatial locations j (1-based) whose
\* ground-truth classification value is not zero
ActiveCells ==
    {c \in (1..NumB) \X (1..NumJoints) \X (1..NumHW) :
        RefJointWeight(c[1], c[2]) * RefAt(target, c[1], 3 * c[2] - 2, c[3]) # 0}

\* C13: CombinedTargetIOULoss.forward, for every batch size B >= 1 and every
\* heatmap size, completes with a loss, having built one predicted box and one
\* ground-truth box for every sample and location whose ground-truth
\* classification value is not zero and no box for the locations where it is
\* exactly zero.
C13_BoxesOfActiveLocations ==
    (cls = "CombinedTargetIOULoss" /\ Done /\ CombinedArgsValid)
        => /\ Returned
           /\ Len(trace.bbox_gt) = Cardinality(ActiveCells)
           /\ Len(trace.bbox_pred) = Cardinality(ActiveCells)

\* two samples, two locations, every ground-truth classification value 1:
\* the truth value of heatmap_gt[:, 0] == 0 is ambiguous, forward raises
C13_Witness ==
    /\ cls = "CombinedTargetIOULoss" /\ Done /\ CombinedArgsValid
    /\ ~use_target_weight /\ NumB = 2 /\ NumHW = 2 /\ NumJoints = 1
    /\ target = Full(<<2, 3, 1, 2>>, 1)
    /\ Raised("RuntimeError") /\ trace.n_crit = 1 /\ trace.bbox_gt = <<>>

\* a box <<x1, y1, x2, y2>> is a valid axis-aligned box
ValidBox(box) == box[1] <= box[3] /\ box[2] <= box[4]

\* C14: on arguments with a location whose ground-truth classification value
\* is not zero, CombinedTargetIOULoss.forward builds ground-truth and predicted
\* boxes, and every box built has its first corner <= its second corner on
\* both axes, whatever the signs of the x and y offsets.
C14_BoxesValid ==
    (/\ cls = "CombinedTargetIOULoss" /\ Done /\ CombinedArgsValid
     /\ ActiveCells # {})
        => /\ trace.bbox_gt # <<>> /\ trace.bbox_pred # <<>>
           /\ \A i \in 1..Len(trace.bbox_gt) : ValidBox(trace.bbox_gt[i])
           /\ \A i \in 1..Len(trace.bbox_pred) : ValidBox(trace.bbox_pred[i])

\* one sample, one location, weighted, classification value and offsets all
\* -1: the location is not skipped and forward raises on the 0-dimensional
\* offset_x_gt before a box is built
C14_Witness ==
    /\ cls = "CombinedTargetIOULoss" /\ Done /\ use_target_weight
    /\ target = Full(<<1, 3, 1, 1>>, -1)
    /\ target_weights = Full(<<1, 1>>, 2)
    /\ Raised("IndexError") /\ trace.n_crit = 1
    /\ trace.bbox_gt = <<>> /\ trace.bbox_pred = <<>>

\* what CombinedTargetMSELoss.forward does on the same arguments
SameArgsCombinedMSE ==
    CombinedTargetMSELossCall(use_target_weight, loss_weight, output, target,
                              target_weights)

\* C15: CombinedTargetIOULoss.forward returns, and the classification terms
\* and the ground-truth-masked offset regression terms it has added to loss
\* are those CombinedTargetMSELoss.forward adds on the same arguments (the
\* IoU terms come on top).
C15_SameTermsAsCombinedMSE ==
    (cls = "CombinedTargetIOULoss" /\ Done /\ CombinedArgsValid)
        => /\ Returned
           /\ trace.cls_loss = SameArgsCombinedMSE.trace.cls_loss
           /\ trace.reg_loss = SameArgsCombinedMSE.trace.reg_loss

\* CombinedTargetMSELoss returns a loss with a regression term on arguments
\* on which the IoU variant raises, having added the classification term only
C15_Witness ==
    /\ cls = "CombinedTargetIOULoss" /\ Done /\ CombinedArgsValid
    /\ NumJoints = 1 /\ ~use_target_weight
    /\ SameArgsCombinedMSE.result.tag = "value"
    /\ SameArgsCombinedMSE.trace.reg_loss # Zero
    /\ trace.cls_loss = SameArgsCombinedMSE.trace.cls_loss
    /\ trace.reg_loss = Zero /\ result.tag = "error"

\* what forward returns or raises for the arguments of the call f when the
\* call is the only one and the first on the module: the results of the
\* forward operator of the module's class
AloneResults(f) ==
    CASE cls = "KeypointMSELoss" ->
            {KeypointMSELossCall(use_target_weight, loss_weight, f.output,
                                 f.target, f.target_weights).result}
      [] cls = "KeypointOHKMMSELoss" ->
            {r.result : r \in KeypointOHKMMSELossCall(use_target_weight, topk,
                                 loss_weight, f.output, f.target,
                                 f.target_weights)}
      [] cls = "CombinedTargetMSELoss" ->
            {CombinedTargetMSELossCall(use_target_weight, loss_weight, f.output,
                                       f.target, f.target_weights).result}

\* the tensors the caller passed to call c
CallerTensors(c) ==
    <<frames[c].output, frames[c].target, frames[c].target_weights>>

\* C16: no step of a forward call changes the module's use_target_weight,
\* topk or loss_weight or a tensor a caller passed as output, target or
\* target_weights; so a call made after other calls on the module returns
\* what the first call on a fresh module returns for its arguments, and calls
\* with the same arguments return the same.
C16_ForwardChangesNothing ==
    /\ [][/\ <<cls, use_target_weight, topk, loss_weight>>'
                = <<cls, use_target_weight, topk, loss_weight>>
          /\ \A c \in DOMAIN frames : CallerTensors(c)' = CallerTensors(c)]_vars
    /\ [](\A c \in DOMAIN frames :
             frames[c].pc = "done" =>
                /\ frames[c].result \in AloneResults(frames[c])
                /\ \A d \in DOMAIN frames :
                      (frames[d].pc = "done" /\ CallerTensors(d) = CallerTensors(c))
                         => frames[d].result = frames[c].result)

\* two weighted KeypointMSELoss calls on the same arguments, one after the
\* other: each has unsqueezed its local target_weights, the caller's tensor
\* has its shape [B,K], both return 10
C16_Witness ==
    /\ cls = "KeypointMSELoss" /\ use_target_weight /\ loss_weight = 1
    /\ \A c \in 1..2 :
          /\ frames[c].pc = "done" /\ ~frames[c].interleaved
          /\ frames[c].output = Ramp(<<1, 2, 1, 1>>)
          /\ frames[c].target = Full(<<1, 2, 1, 1>>, 0)
          /\ frames[c].target_weights = Full(<<1, 2>>, 2)
          /\ frames[c].w.shape = <<1, 2, 1, 1>>
          /\ frames[c].result = Ok(<<10, 1>>)

\* C17: a forward call whose steps (the loop iterations over keypoints and
\* samples included) were interleaved with the steps of another call on the
\* same module returns or raises what it does when it runs alone.
C17_InterleavedAsAlone ==
    \A c \in DOMAIN frames :
        (frames[c].pc = "done" /\ frames[c].interleaved)
            => frames[c].result \in AloneResults(frames[c])

\* two KeypointOHKMMSELoss calls on different batches, both interleaved with
\* the other, both returned, with different losses
C17_Witness ==
    /\ cls = "KeypointOHKMMSELoss" /\ topk = 1 /\ loss_weight = 1
    /\ \A c \in 1..2 : /\ frames[c].pc = "done" /\ frames[c].interleaved
                       /\ frames[c].result.tag = "value"
    /\ frames[1].output.shape = <<2, 1, 1, 1>>
    /\ frames[2].output.shape = <<1, 2, 1, 1>>
    /\ frames[1].result # frames[2].result
    /\ frames[1].result.val # Zero /\ frames[2].result.val # Zero

\* sample b (1-based) of a tensor as a batch of its own, t[b-1:b]; None stays
\* None
SampleOf(t, b) ==
    IF t = None THEN None
    ELSE LET n == Stride(t.shape, 1)
         IN  Tensor(<<1>> \o Tail(t.shape),
                    SubSeq(t.data, (b - 1) * n + 1, b * n))

\* what KeypointOHKMMSELoss.forward returns or raises when it is called on
\* sample b alone
PerSampleResults(b) ==
    {r.result : r \in KeypointOHKMMSELossCall(use_target_weight, topk,
                          loss_weight, SampleOf(output, b), SampleOf(target, b),
                          SampleOf(target_weights, b))}

\* C18: the loss KeypointOHKMMSELoss.forward returns for a batch of B >= 1
\* samples is the arithmetic mean of the losses the same module returns for
\* each sample as a batch of size 1 (each of which is a single value).
C18_MeanOfPerSampleLosses ==
    (cls = "KeypointOHKMMSELoss" /\ Done /\ Returned)
        => With(MkSeq(NumB, LAMBDA b : PerSampleResults(b)), LAMBDA alone :
              /\ \A b \in 1..NumB :
                    /\ Cardinality(alone[b]) = 1
                    /\ \A r \in alone[b] : r.tag = "value"
              /\ RSum(MkSeq(NumB, LAMBDA b :
                         (CHOOSE r \in alone[b] : TRUE).val))
                    = RMulInt(result.val, NumB))

\* two samples whose hardest keypoints differ and whose own losses differ:
\* 4 for the first, 0 for the second, 2 for the batch
C18_Witness ==
    /\ cls = "KeypointOHKMMSELoss" /\ Done /\ use_target_weight
    /\ NumB = 2 /\ NumK = 2 /\ topk = 1 /\ loss_weight = 1 /\ WeightsShaped(2)
    /\ trace.topk_idx[1] = {0}
    /\ PerSampleResults(1) = {Ok(<<4, 1>>)}
    /\ PerSampleResults(2) = {Ok(Zero)}
    /\ result = Ok(<<2, 1>>)

\* sum over the B*H*W elements of keypoint k (1-based) of the squared errors
\* of RefCombinedSqErr with the classification maps multiplied by w[b,k]
RefWeightedCombinedSqErr(k) ==
    ISum(MkSeq(NumB, LAMBDA b :
        ISum(MkSeq(NumHW, LAMBDA j :
            LET w == RefJointWeight(b, k)
                cls_pred == w * RefAt(output, b, 3 * k - 2, j)
                cls_gt == w * RefAt(target, b, 3 * k - 2, j)
            IN  (cls_pred - cls_gt) ^ 2
                + (cls_gt * RefAt(output, b, 3 * k - 1, j)
                     - cls_gt * RefAt(target, b, 3 * k - 1, j)) ^ 2
                + (cls_gt * RefAt(output, b, 3 * k, j)
                     - cls_gt * RefAt(target, b, 3 * k, j)) ^ 2))))

\* C19: CombinedTargetMSELoss.forward with use_target_weight enabled and
\* target_weights of shape [B,K] returns, for every B >= 1 and H*W >= 1,
\* loss_weight * (1/K) * sum over k of the three half mean squared errors over
\* the B*H*W elements of keypoint k, with cls_pred and cls_gt replaced by
\* w[b,k]*cls_pred and w[b,k]*cls_gt.
C19_WeightedCombinedValue ==
    (/\ cls = "CombinedTargetMSELoss" /\ Done /\ use_target_weight
     /\ CombinedArgsValid)
        => /\ Returned
           /\ RatIs(result.val,
                    loss_weight * ISum(MkSeq(NumJoints, LAMBDA k :
                                                RefWeightedCombinedSqErr(k))),
                    2 * NumB * NumHW * NumJoints)

\* two samples, one location: classification 1 against 0 in the first sample
\* only, weights 2 and 0: 0.5 * (4 + 0) / 2 = 1 by the formula, 1/2 returned
C19_Witness ==
    /\ cls = "CombinedTargetMSELoss" /\ Done /\ use_target_weight
    /\ loss_weight = 1
    /\ output = Tensor(<<2, 3, 1, 1>>, <<1, 0, 0, 0, 0, 0>>)
    /\ target = Full(<<2, 3, 1, 1>>, 0)
    /\ target_weights = Tensor(<<2, 1>>, <<2, 0>>)
    /\ RefWeightedCombinedSqErr(1) = 4
    /\ result = Ok(<<1, 2>>)

\* the ground-truth classification map of keypoint k (1-based) is zero at
\* every spatial location of every sample
NoActiveLocation(k) ==
    \A b \in 1..NumB : \A j \in 1..NumHW : RefAt(target, b, 3 * k - 2, j) = 0

\* C20: on arguments with a keypoint whose ground-truth classification map is
\* zero at every location CombinedTargetIOULoss.forward returns a loss value;
\* it does not fail.
C20_NoActiveLocationReturns ==
    (/\ cls = "CombinedTargetIOULoss" /\ Done /\ CombinedArgsValid
     /\ \E k \in 1..NumJoints : NoActiveLocation(k))
        => Returned

\* one sample, weighted, the ground-truth classification map zero: every
\* location is skipped, bbox_gt stays empty and torch.cat raises
C20_Witness ==
    /\ cls = "CombinedTargetIOULoss" /\ Done /\ CombinedArgsValid
    /\ use_target_weight /\ NumB = 1 /\ NumJoints = 1 /\ NumHW = 2
    /\ NoActiveLocation(1)
    /\ Raised("RuntimeError") /\ trace.n_crit = 1
    /\ trace.bbox_gt = <<>> /\ trace.bbox_pred = <<>>

\* boxes i of the two lists belong to the same spatial location: they share
\* the corner (x, y) of the location, as first or as second corner
SameLocation(gt, pred) ==
    {<<gt[1], gt[2]>>, <<gt[3], gt[4]>>}
        \cap {<<pred[1], pred[2]>>, <<pred[3], pred[4]>>} # {}

\* C21: on arguments with a location whose ground-truth classification value
\* is not zero, CombinedTargetIOULoss.forward reaches the IoU loss with lists
\* of predicted and ground-truth boxes of the same length, not empty, whose
\* i-th boxes belong to the same location, whatever the signs of the predicted
\* and ground-truth offsets.
C21_BoxListsAligned ==
    (/\ cls = "CombinedTargetIOULoss" /\ Done /\ CombinedArgsValid
     /\ ActiveCells # {})
        => /\ result.tag # "error"
           /\ Len(trace.bbox_pred) = Len(trace.bbox_gt)
           /\ Len(trace.bbox_gt) >= Cardinality(ActiveCells)
           /\ \A i \in 1..Len(trace.bbox_gt) :
                 SameLocation(trace.bbox_gt[i], trace.bbox_pred[i])

\* one sample, one location, not weighted; ground-truth classification 1 with
\* offsets +1 and 0, predicted offsets -1: forward raises on the subscript of
\* the 0-dimensional heatmap_gt and the IoU loss is never called
C21_Witness ==
    /\ cls = "CombinedTargetIOULoss" /\ Done /\ ~use_target_weight
    /\ target = Tensor(<<1, 3, 1, 1>>, <<1, 1, 0>>)
    /\ output = Full(<<1, 3, 1, 1>>, -1)
    /\ ActiveCells # {}
    /\ Raised("IndexError") /\ trace.n_crit = 1
    /\ Len(trace.bbox_gt) = 0 /\ Len(trace.bbox_pred) = 0

\* what KeypointMSELoss.forward does on the same arguments
SameArgsKeypointMSE ==
    KeypointMSELossCall(use_target_weight, loss_weight, output, target,
                        target_weights).result

\* C22: KeypointOHKMMSELoss with topk equal to the number K of keypoints, on
\* at least one sample (and weights of shape [B,K] when use_target_weight is
\* set), returns a value, and KeypointMSELoss with the same use_target_weight
\* and loss_weight returns the same value on the same output, target and
\* target_weights.
C22_TopkAllIsMSE ==
    (/\ cls = "KeypointOHKMMSELoss" /\ Done
     /\ topk = NumK /\ NumB >= 1
     /\ use_target_weight => WeightsShaped(NumK))
        => /\ Returned
           /\ SameArgsKeypointMSE.tag = "value"
           /\ RatIs(result.val, SameArgsKeypointMSE.val[1],
                    SameArgsKeypointMSE.val[2])

\* two samples, two keypoints, topk 2, weighted, loss_weight 2: all the
\* elements differ and the weights are 2 for sample 0 and 0 for sample 1, so
\* both losses are 2 * (4 * 2) / 4 = 4
C22_Witness ==
    /\ cls = "KeypointOHKMMSELoss" /\ Done /\ use_target_weight
    /\ topk = 2 /\ loss_weight = 2
    /\ output = Full(<<2, 2, 1, 1>>, 1) /\ target = Full(<<2, 2, 1, 1>>, 0)
    /\ target_weights = Tensor(<<2, 2>>, <<2, 2, 0, 0>>)
    /\ Returned /\ RatIs(result.val, 4, 1)
    /\ RatIs(SameArgsKeypointMSE.val, 4, 1)

\* the channel (1-based) of element f (1-based) of a [B,C,H,W] tensor
ChannelOf(t, f) == (((f - 1) \div (t.shape[3] * t.shape[4])) % t.shape[2]) + 1

\* t with the channels after the last complete triplet set to zero
ZeroTail(t) ==
    Tensor(t.shape,
           MkSeq(Len(t.data), LAMBDA f :
              IF ChannelOf(t, f) > 3 * (t.shape[2] \div 3) THEN 0 ELSE t.data[f]))

\* t[:, :3 * (C // 3)]: t without the channels after the last complete triplet
Triplets(t) ==
    LET shape == <<t.shape[1], 3 * (t.shape[2] \div 3), t.shape[3], t.shape[4]>>
        kept == SelectSeq(MkSeq(Len(t.data), LAMBDA f : <<f, t.data[f]>>),
                          LAMBDA e : ChannelOf(t, e[1]) <= shape[2])
    IN  Tensor(shape, MkSeq(Len(kept), LAMBDA i : kept[i][2]))

\* the channel count is not a multiple of 3 and the other arguments are
\* well-shaped: weights of shape [B, C // 3] when use_target_weight is set
RemainderArgs ==
    /\ NumB >= 1 /\ NumK % 3 # 0
    /\ use_target_weight => WeightsShaped(NumJoints)

\* the result does not depend on the channels after the last complete triplet
TailIgnored ==
    result = CombinedTargetMSELossCall(use_target_weight, loss_weight,
                                       ZeroTail(output), ZeroTail(target),
                                       target_weights).result

\* C23 as stated: whenever the channel count C is not a multiple of 3,
\* CombinedTargetMSELoss.forward returns a loss, and the loss does not depend
\* on the values of the last C mod 3 channels of output and target.
C23_AnyRemainderReturns ==
    (cls = "CombinedTargetMSELoss" /\ Done /\ RemainderArgs)
        => Returned /\ TailIgnored

\* C23 amended: when C is not a multiple of 3, forward returns a loss if
\* C > 3, and the loss is the one forward returns for the first C // 3 channel
\* triplets alone, whatever the values of the last C mod 3 channels; if C < 3
\* there is no triplet and forward raises ZeroDivisionError.
C23_RemainderIgnored ==
    (cls = "CombinedTargetMSELoss" /\ Done /\ RemainderArgs)
        => IF NumK > 3
           THEN /\ Returned /\ TailIgnored
                /\ result = CombinedTargetMSELossCall(
                               use_target_weight, loss_weight, Triplets(output),
                               Triplets(target), target_weights).result
           ELSE Raised("ZeroDivisionError") /\ TailIgnored

\* one sample, five channels, not weighted: the classification maps differ,
\* the two channels left over differ too, and the loss is 0.5 * 1 / 1 = 1/2
C23_Witness ==
    /\ cls = "CombinedTargetMSELoss" /\ Done /\ ~use_target_weight
    /\ loss_weight = 1
    /\ output = Tensor(<<1, 5, 1, 1>>, <<1, 0, 0, 1, 1>>)
    /\ target = Full(<<1, 5, 1, 1>>, 0)
    /\ ZeroTail(output) # output
    /\ Returned /\ RatIs(result.val, 1, 2)

====
